---- MODULE Spec2Model ----
(***************************************************************************)
(* A model of github-bulk-delete (src/main.py): the range-list parser      *)
(* parse_indices, the confirmation check, the paginated listing and the    *)
(* per-item deletion of GitHubClient, and the workflow of main() / run().  *)
(*                                                                         *)
(* Text is a sequence of one-character strings, so that str.split,         *)
(* str.strip and int() are computed as Python computes them.               *)
(***************************************************************************)
EXTENDS Integers, Sequences, FiniteSets, TLC

\* ------------------------------------------------------------------ bounds

\* longest selection text given to parse_indices in SpecParse and SpecSelect
MaxLen == 4
\* largest repos_count given to parse_indices in SpecParse and SpecSelect
MaxCount == 3
\* longest selection text typed in the full workflow (Spec)
SelMaxLen == 3
\* most repositories the remote lists in the full workflow (Spec)
MaxRepos == 3
\* most items the remote puts on one page
MaxPageItems == 2
\* most non-empty pages the remote serves in SpecList
MaxPages == 2

\* ------------------------------------------------------------------ text

Digits == {"0", "1", "2"}
Space == " "
\* the characters selection texts are made of: digits, the two separators,
\* whitespace and one non-numeric character
Chars == Digits \cup {",", "-", Space, "x"}

Texts(n) == UNION {[1..k -> Chars] : k \in 0..n}

DigitVal(c) == CASE c = "0" -> 0 [] c = "1" -> 1 [] c = "2" -> 2 [] OTHER -> 0

SetMin(S) == CHOOSE x \in S : \A y \in S : x <= y
SetMax(S) == CHOOSE x \in S : \A y \in S : y <= x

\* str.strip(): leading and trailing whitespace removed
strip(s) ==
    LET keep == {i \in 1..Len(s) : s[i] # Space}
    IN  IF keep = {} THEN <<>> ELSE SubSeq(s, SetMin(keep), SetMax(keep))

\* `sep in s`
Contains(s, sep) == \E i \in 1..Len(s) : s[i] = sep

\* str.split(sep): the pieces between the separators, empty pieces kept
RECURSIVE split(_, _)
split(s, sep) ==
    IF ~Contains(s, sep) THEN <<s>>
    ELSE LET i == SetMin({j \in 1..Len(s) : s[j] = sep})
         IN  <<SubSeq(s, 1, i - 1)>> \o split(SubSeq(s, i + 1, Len(s)), sep)

\* int(s) raises ValueError unless s, with surrounding whitespace removed, is
\* a non-empty run of digits (no sign or underscore occurs in Chars; a "-"
\* never reaches int() because parse_indices splits on it first)
int_ok(s) ==
    LET t == strip(s) IN t # <<>> /\ \A i \in 1..Len(t) : t[i] \in Digits

RECURSIVE digits_val(_)
digits_val(t) ==
    IF t = <<>> THEN 0
    ELSE 10 * digits_val(SubSeq(t, 1, Len(t) - 1)) + DigitVal(t[Len(t)])

int_val(s) == digits_val(strip(s))

\* list(range(start, stop))
range(start, stop) ==
    IF stop <= start THEN <<>> ELSE [i \in 1..(stop - start) |-> start + i - 1]

\* sorted(list(set(...)))
RECURSIVE sorted(_)
sorted(S) ==
    IF S = {} THEN <<>> ELSE <<SetMin(S)>> \o sorted(S \ {SetMin(S)})

\* ------------------------------------------------------------ parse_indices

\* the Optional[List[int]] parse_indices returns: None, or a list
None == [none |-> TRUE, list |-> <<>>]
Some(l) == [none |-> FALSE, list |-> l]

\* the body of the for loop over input_str.split(","); any ValueError
\* (int() failing, or start_str, end_str = ... not unpacking two pieces)
\* leaves the loop and makes the call return None
\* variant: a segment int() rejects is skipped instead of failing the call
RECURSIVE parse_parts_skip(_, _, _)
parse_parts_skip(parts, k, acc) ==
    IF k > Len(parts) THEN Some(acc)
    ELSE LET part == strip(parts[k]) IN
         IF part = <<>> THEN parse_parts_skip(parts, k + 1, acc)
         ELSE IF Contains(part, "-")
         THEN LET pieces == split(part, "-") IN
              IF Len(pieces) # 2 THEN None
              ELSE IF ~int_ok(pieces[1]) \/ ~int_ok(pieces[2]) THEN None
              ELSE parse_parts_skip(parts, k + 1,
                       acc \o range(int_val(pieces[1]), int_val(pieces[2]) + 1))
         ELSE IF ~int_ok(part) THEN parse_parts_skip(parts, k + 1, acc)
         ELSE parse_parts_skip(parts, k + 1, Append(acc, int_val(part)))

RECURSIVE parse_parts(_, _, _)
parse_parts(parts, k, acc) ==
    IF k > Len(parts) THEN Some(acc)
    ELSE LET part == strip(parts[k]) IN
         IF part = <<>> THEN parse_parts(parts, k + 1, acc)
         ELSE IF Contains(part, "-")
         THEN LET pieces == split(part, "-") IN
              IF Len(pieces) # 2 THEN None
              ELSE IF ~int_ok(pieces[1]) \/ ~int_ok(pieces[2]) THEN None
              ELSE parse_parts(parts, k + 1,
                       acc \o range(int_val(pieces[1]), int_val(pieces[2]) + 1))
         ELSE IF ~int_ok(part) THEN None
         ELSE parse_parts(parts, k + 1, Append(acc, int_val(part)))

\* the filter `1 <= i <= repos_count`
\* variant: the window starts at 0
in_window_off(i, repos_count) == 0 <= i /\ i <= repos_count
in_window(i, repos_count) == 1 <= i /\ i <= repos_count

parse_indices(input_str, repos_count) ==
    LET r == parse_parts(split(input_str, ","), 1, <<>>) IN
    IF r.none THEN None
    ELSE Some(sorted({r.list[k] - 1 :
                 k \in {j \in 1..Len(r.list) : in_window(r.list[j], repos_count)}}))

\* ---------------------------------------------------------- confirm_deletion

DELETE == <<"D", "E", "L", "E", "T", "E">>

\* what the user may type at the confirmation prompt: "DELETE", "  DELETE  ",
\* "delete", "Delete ", "no", "", "DELETE x", " D ELETE"
ConfirmInputs ==
    { DELETE,
      <<Space, Space>> \o DELETE \o <<Space, Space>>,
      <<"d", "e", "l", "e", "t", "e">>,
      <<"D", "e", "l", "e", "t", "e", Space>>,
      <<"n", "o">>,
      <<>>,
      DELETE \o <<Space, "x">>,
      <<Space, "D", Space, "E", "L", "E", "T", "E">> }

lower(c) ==
    CASE c = "D" -> "d" [] c = "E" -> "e" [] c = "L" -> "l" [] c = "T" -> "t"
      [] OTHER -> c

\* `confirm.strip() == "DELETE"`
\* variant: the comparison ignores case
confirm_deletion_nocase(confirm) ==
    LET t == strip(confirm)
    IN  [i \in 1..Len(t) |-> lower(t[i])] = [i \in 1..Len(DELETE) |-> lower(DELETE[i])]
confirm_deletion(confirm) == strip(confirm) = DELETE

\* ------------------------------------------------------------- GitHubClient

\* what session.get / session.delete gives back: an HTTP response with a
\* status code (and, for a listing page, the decoded JSON array), or a
\* requests.RequestException
Http(code, data) == [kind |-> "http", code |-> code, data |-> data]
Exc == [kind |-> "exc", code |-> 0, data |-> <<>>]

\* the identity (owner, name) of the j-th repository the remote holds
RepoId(j) == 100 + j

\* a non-success listing response: a non-200 status or a transport failure
ListFailures == {Http(401, <<>>), Http(500, <<>>), Exc}

\* a well-behaved remote: MaxRepos distinct repositories at most, served in
\* API order, each page holding the next MaxPageItems items at most
OrderlyData(have) ==
    { [i \in 1..k |-> RepoId(have + i)] :
        k \in 0..(IF MaxRepos - have < MaxPageItems THEN MaxRepos - have
                  ELSE MaxPageItems) }

\* any remote: a page holds any items in any order, repeats included; after
\* MaxPages non-empty pages the next page is empty
AnyData(pageno) ==
    IF pageno > MaxPages THEN {<<>>}
    ELSE UNION {[1..k -> {RepoId(1), RepoId(2)}] : k \in 0..MaxPageItems}

\* `repos.extend(data)`
\* variant: items already listed are dropped
extend_dedup(repos_, data) ==
    repos_ \o SelectSeq(data, LAMBDA x : \A i \in 1..Len(repos_) : repos_[i] # x)
extend(repos_, data) == repos_ \o data

\* `response.status_code != 200`, or the RequestException handler: the page
\* request makes get_repositories raise GitHubError
\* variant: only a transport failure raises
list_error_lenient(r) == r.kind = "exc"
list_error(r) == r.kind = "exc" \/ r.code # 200

\* delete_repository's return value: `response.status_code == 204`, and
\* False from the RequestException handler
\* variant: a transport failure counts as deleted
delete_repository_exc_true(r) == r.kind = "exc" \/ r.code = 204
\* variant: every status but 404 counts as deleted
delete_repository_not404(r) == r.kind = "http" /\ r.code # 404
delete_repository(r) == r.kind = "http" /\ r.code = 204

\* GitHubClient.__exit__: self.session.close()
\* variant: the session is left as it is
exit_session_leak(s) == s
exit_session(s) == "closed"

\* what one DELETE request does at the remote and what comes back: 204 when
\* the repository was removed, another status when it was not, and a
\* transport failure (a timeout, a dropped connection) either before or
\* after the remote acted
DeleteOutcomes(exists) ==
    IF exists
    THEN { [resp |-> Http(204, <<>>), removes |-> TRUE],
           [resp |-> Http(403, <<>>), removes |-> FALSE],
           [resp |-> Exc, removes |-> FALSE],
           [resp |-> Exc, removes |-> TRUE] }
    ELSE { [resp |-> Http(404, <<>>), removes |-> FALSE],
           [resp |-> Exc, removes |-> FALSE] }

\* -------------------------------------------------------------------- state

VARIABLES
    pc,             \* where main() stands
    session,        \* the requests.Session: "none", "open", "closed"
    page,           \* get_repositories: page
    client_repos,   \* get_repositories: repos
    repos,          \* main: repos (empty until get_repositories returns)
    input_str,      \* main: input_str
    indices,        \* main: indices
    selected_repos, \* main: selected_repos
    confirm,        \* confirm_deletion: confirm
    success_count,  \* main: success_count
    attempted,      \* main: the iterations of the delete loop done so far
    sent,           \* the requests put on the wire, in order
    served,         \* the responses to the page requests, in order
    log,            \* one entry per finished delete: repository, response, the line printed, what the remote did
    removed,        \* the repositories the remote has removed
    tally,          \* the final "success/total" line, <<>> until printed
    message,        \* the last closing message printed
    exit_code,      \* the process exit status, -1 while running
    interrupted     \* a KeyboardInterrupt was raised

vars == <<pc, session, page, client_repos, repos, input_str, indices,
          selected_repos, confirm, success_count, attempted, sent, served,
          log, removed, tally, message, exit_code, interrupted>>

Running == {"Start", "Fetching", "Listed", "AwaitingSelection",
            "AwaitingConfirmation", "Deleting"}
Terminal == {"NoToken", "FetchFailed", "NoRepositories", "InvalidSelection",
             "EmptySelection", "Cancelled", "Done", "Interrupted", "Crashed"}

Get(p) == [kind |-> "GET", arg |-> p]
Delete(r) == [kind |-> "DELETE", arg |-> r]

Init ==
    /\ pc = "Start"
    /\ session = "none"
    /\ page = 0
    /\ client_repos = <<>>
    /\ repos = <<>>
    /\ input_str = <<>>
    /\ indices = None
    /\ selected_repos = <<>>
    /\ confirm = <<>>
    /\ success_count = 0
    /\ attempted = 0
    /\ sent = <<>>
    /\ served = <<>>
    /\ log = <<>>
    /\ removed = {}
    /\ tally = <<>>
    /\ message = ""
    /\ exit_code = -1
    /\ interrupted = FALSE

\* main returns: the with block is left, run() returns, the process ends
Return(state, msg) ==
    /\ pc' = state
    /\ message' = msg
    /\ session' = IF session = "open" THEN exit_session(session) ELSE session
    /\ exit_code' = 0

\* no token in the environment and none typed: main returns before the client exists
NoToken ==
    /\ pc = "Start"
    /\ Return("NoToken", "Error: GitHub token is required.")
    /\ UNCHANGED <<page, client_repos, repos, input_str, indices, selected_repos,
                   confirm, success_count, attempted, sent, served, log, removed,
                   tally, interrupted>>

\* a token is there: the client is built, the with block entered and
\* get_repositories called
StartRun ==
    /\ pc = "Start"
    /\ session' = "open"
    /\ pc' = "Fetching"
    /\ page' = 1
    /\ client_repos' = <<>>
    /\ UNCHANGED <<repos, input_str, indices, selected_repos, confirm,
                   success_count, attempted, sent, served, log, removed, tally,
                   message, exit_code, interrupted>>

\* one turn of get_repositories' while loop: the page request and what
\* follows from its response
FetchPage(data) ==
    /\ pc = "Fetching"
    /\ \E r \in {Http(200, d) : d \in data} \cup ListFailures :
        /\ sent' = Append(sent, Get(page))
        /\ served' = Append(served, r)
        /\ IF list_error(r)
           THEN /\ Return("FetchFailed", "Error: GitHubError")
                /\ UNCHANGED <<page, client_repos, repos>>
           ELSE IF r.data = <<>>
           THEN /\ repos' = client_repos
                /\ pc' = "Listed"
                /\ UNCHANGED <<page, client_repos, session, message, exit_code>>
           ELSE /\ client_repos' = extend(client_repos, r.data)
                /\ page' = page + 1
                /\ UNCHANGED <<pc, repos, session, message, exit_code>>
    /\ UNCHANGED <<input_str, indices, selected_repos, confirm, success_count,
                   attempted, log, removed, tally, interrupted>>

\* the listing is back: nothing to show, or the table and the selection prompt
Display ==
    /\ pc = "Listed"
    /\ IF repos = <<>>
       THEN Return("NoRepositories", "No repositories found.")
       ELSE /\ pc' = "AwaitingSelection"
            /\ UNCHANGED <<session, message, exit_code>>
    /\ UNCHANGED <<page, client_repos, repos, input_str, indices, selected_repos,
                   confirm, success_count, attempted, sent, served, log, removed,
                   tally, interrupted>>

\* the selection text is read and parsed
Select(texts) ==
    /\ pc = "AwaitingSelection"
    /\ \E t \in texts :
        /\ input_str' = t
        /\ indices' = parse_indices(t, Len(repos))
        /\ IF indices'.none
           THEN /\ Return("InvalidSelection", "Invalid input format.")
                /\ UNCHANGED selected_repos
           ELSE IF indices'.list = <<>>
           THEN /\ Return("EmptySelection", "No valid repositories selected.")
                /\ UNCHANGED selected_repos
           ELSE /\ selected_repos' =
                     [k \in 1..Len(indices'.list) |-> repos[indices'.list[k] + 1]]
                /\ pc' = "AwaitingConfirmation"
                /\ UNCHANGED <<session, message, exit_code>>
    /\ UNCHANGED <<page, client_repos, repos, confirm, success_count, attempted,
                   sent, served, log, removed, tally, interrupted>>

\* the confirmation is read
Confirm ==
    /\ pc = "AwaitingConfirmation"
    /\ \E c \in ConfirmInputs :
        /\ confirm' = c
        /\ IF confirm_deletion(c)
           THEN /\ pc' = "Deleting"
                /\ success_count' = 0
                /\ attempted' = 0
                /\ UNCHANGED <<session, message, exit_code>>
           ELSE /\ Return("Cancelled", "Operation cancelled.")
                /\ UNCHANGED <<success_count, attempted>>
    /\ UNCHANGED <<page, client_repos, repos, input_str, indices, selected_repos,
                   sent, served, log, removed, tally, interrupted>>

\* `for repo in selected_repos` is exhausted after this iteration; the
\* outcome of the delete plays no part
\* variant: the loop also ends at the first failed delete
loop_over_break(done, total, ok) == done = total \/ ~ok
loop_over(done, total, ok) == done = total

\* one turn of the delete loop; after the last one the tally is printed and
\* main returns
DeleteStep ==
    /\ pc = "Deleting"
    /\ attempted < Len(selected_repos)
    /\ LET repo == selected_repos[attempted + 1] IN
       \E o \in DeleteOutcomes(repo \notin removed) :
        LET ok == delete_repository(o.resp)
            count == IF ok THEN success_count + 1 ELSE success_count
        IN  /\ sent' = Append(sent, Delete(repo))
            /\ removed' = IF o.removes THEN removed \cup {repo} ELSE removed
            /\ log' = Append(log, [repo |-> repo, resp |-> o.resp, ok |-> ok,
                                   removes |-> o.removes])
            /\ success_count' = count
            /\ attempted' = attempted + 1
            /\ IF loop_over(attempted + 1, Len(selected_repos), ok)
               THEN /\ tally' = <<count, Len(selected_repos)>>
                    /\ Return("Done", "Operation completed.")
               ELSE UNCHANGED <<pc, session, message, exit_code, tally>>
    /\ UNCHANGED <<page, client_repos, repos, input_str, indices, selected_repos,
                   confirm, served, interrupted>>

\* run()'s handler: the cancellation message and sys.exit(0)
\* variant: the interrupt is not caught
run_handler_uncaught ==
    [pc |-> "Crashed", message |-> "Traceback: KeyboardInterrupt", exit_code |-> 1]
run_handler ==
    [pc |-> "Interrupted", message |-> "Operation cancelled by user. Exiting...",
     exit_code |-> 0]

\* KeyboardInterrupt leaves main through the with block and reaches run()
Raise ==
    /\ interrupted' = TRUE
    /\ session' = IF session = "open" THEN exit_session(session) ELSE session
    /\ pc' = run_handler.pc
    /\ message' = run_handler.message
    /\ exit_code' = run_handler.exit_code

\* the interrupt arrives while main waits for input or between two calls
Interrupt ==
    /\ pc \in Running
    /\ Raise
    /\ UNCHANGED <<page, client_repos, repos, input_str, indices, selected_repos,
                   confirm, success_count, attempted, sent, served, log, removed,
                   tally>>

\* the interrupt arrives while a page request is on the wire
InterruptedGet ==
    /\ pc = "Fetching"
    /\ sent' = Append(sent, Get(page))
    /\ Raise
    /\ UNCHANGED <<page, client_repos, repos, input_str, indices, selected_repos,
                   confirm, success_count, attempted, served, log, removed, tally>>

\* the interrupt arrives while a delete request is on the wire: the remote
\* may or may not have acted on it
InterruptedDelete ==
    /\ pc = "Deleting"
    /\ attempted < Len(selected_repos)
    /\ LET repo == selected_repos[attempted + 1] IN
        /\ sent' = Append(sent, Delete(repo))
        /\ \E acted \in BOOLEAN :
            removed' = IF acted THEN removed \cup {repo} ELSE removed
    /\ Raise
    /\ UNCHANGED <<page, client_repos, repos, input_str, indices, selected_repos,
                   confirm, success_count, attempted, served, log, tally>>

Next ==
    \/ NoToken
    \/ StartRun
    \/ FetchPage(OrderlyData(Len(client_repos)))
    \/ Display
    \/ Select(Texts(SelMaxLen))
    \/ Confirm
    \/ DeleteStep
    \/ Interrupt
    \/ InterruptedGet
    \/ InterruptedDelete

Spec == Init /\ [][Next]_vars

\* ------------------------------------------------- the listing, any remote

NextList ==
    \/ NoToken
    \/ StartRun
    \/ FetchPage(AnyData(page))
    \/ Display

SpecList == Init /\ [][NextList]_vars

\* ------------------------------------------ the selection step, longer texts

\* the pages a well-behaved remote holding n repositories serves, the empty
\* last page included
PagesOf(n) ==
    LET full == (n + MaxPageItems - 1) \div MaxPageItems IN
    [p \in 1..(full + 1) |->
        Http(200, [i \in 1..(IF p * MaxPageItems <= n THEN MaxPageItems
                             ELSE IF (p - 1) * MaxPageItems >= n THEN 0
                             ELSE n - (p - 1) * MaxPageItems)
                     |-> RepoId((p - 1) * MaxPageItems + i)])]

\* main at the selection prompt, n repositories listed
InitSelect ==
    \E n \in 1..MaxCount :
        /\ pc = "AwaitingSelection"
        /\ session = "open"
        /\ page = Len(PagesOf(n))
        /\ client_repos = [j \in 1..n |-> RepoId(j)]
        /\ repos = [j \in 1..n |-> RepoId(j)]
        /\ input_str = <<>>
        /\ indices = None
        /\ selected_repos = <<>>
        /\ confirm = <<>>
        /\ success_count = 0
        /\ attempted = 0
        /\ sent = [p \in 1..Len(PagesOf(n)) |-> Get(p)]
        /\ served = PagesOf(n)
        /\ log = <<>>
        /\ removed = {}
        /\ tally = <<>>
        /\ message = ""
        /\ exit_code = -1
        /\ interrupted = FALSE

NextSelect == Select(Texts(MaxLen))

SpecSelect == InitSelect /\ [][NextSelect]_vars

\* --------------------------------------------- parse_indices on its own

\* a call parse_indices(input_str, repos_count) about to be made, for every
\* text of MaxLen characters at most and every repos_count in 0..MaxCount
\* (repos stands for a list of that length)
InitParse ==
    /\ pc = "parse_indices"
    /\ input_str \in Texts(MaxLen)
    /\ repos \in {[j \in 1..n |-> RepoId(j)] : n \in 0..MaxCount}
    /\ indices = None
    /\ session = "none"
    /\ page = 0
    /\ client_repos = <<>>
    /\ selected_repos = <<>>
    /\ confirm = <<>>
    /\ success_count = 0
    /\ attempted = 0
    /\ sent = <<>>
    /\ served = <<>>
    /\ log = <<>>
    /\ removed = {}
    /\ tally = <<>>
    /\ message = ""
    /\ exit_code = -1
    /\ interrupted = FALSE

ParseCall ==
    /\ pc = "parse_indices"
    /\ indices' = parse_indices(input_str, Len(repos))
    /\ pc' = "parsed"
    /\ UNCHANGED <<session, page, client_repos, repos, input_str, selected_repos,
                   confirm, success_count, attempted, sent, served, log, removed,
                   tally, message, exit_code, interrupted>>

NextParse == ParseCall

SpecParse == InitParse /\ [][NextParse]_vars

\* ------------------------------------------------ what a selection text says

\* the comma-separated segments of t, as <<first, last>> positions
Segments(t) ==
    { b \in (1..(Len(t) + 1)) \X (0..Len(t)) :
        /\ b[1] - 1 <= b[2]
        /\ b[1] = 1 \/ t[b[1] - 1] = ","
        /\ b[2] = Len(t) \/ t[b[2] + 1] = ","
        /\ \A k \in b[1]..b[2] : t[k] # "," }

Blank(g) == \A k \in 1..Len(g) : g[k] = Space

\* one integer: a run of digits, whitespace around it allowed
NumForm(g) ==
    \E a, b \in 1..Len(g) :
        /\ a <= b
        /\ \A k \in 1..Len(g) :
            IF a <= k /\ k <= b THEN g[k] \in Digits ELSE g[k] = Space

Pow10(n) == IF n = 0 THEN 1 ELSE IF n = 1 THEN 10 ELSE IF n = 2 THEN 100
            ELSE IF n = 3 THEN 1000 ELSE IF n = 4 THEN 10000 ELSE 100000

\* the base-10 value of the digits of g
RECURSIVE PlaceSum(_, _)
PlaceSum(g, k) ==
    IF k > Len(g) THEN 0
    ELSE IF g[k] \in Digits
    THEN DigitVal(g[k]) * Pow10(Cardinality({j \in (k + 1)..Len(g) : g[j] \in Digits}))
         + PlaceSum(g, k + 1)
    ELSE PlaceSum(g, k + 1)
NumOf(g) == PlaceSum(g, 1)

\* start-end: two integers around one hyphen, at position h
RangeAt(g, h) ==
    /\ g[h] = "-"
    /\ NumForm(SubSeq(g, 1, h - 1))
    /\ NumForm(SubSeq(g, h + 1, Len(g)))
RangeForm(g) == \E h \in 1..Len(g) : RangeAt(g, h)

GoodSegment(g) == Blank(g) \/ NumForm(g) \/ RangeForm(g)

WellFormed(t) == \A b \in Segments(t) : GoodSegment(SubSeq(t, b[1], b[2]))

\* the text names v: as a single number, or as a member of an inclusive range
Names(t, v) ==
    \E b \in Segments(t) :
        LET g == SubSeq(t, b[1], b[2]) IN
        \/ NumForm(g) /\ NumOf(g) = v
        \/ \E h \in 1..Len(g) :
            /\ RangeAt(g, h)
            /\ NumOf(SubSeq(g, 1, h - 1)) <= v
            /\ v <= NumOf(SubSeq(g, h + 1, Len(g)))

SeqSet(q) == {q[k] : k \in 1..Len(q)}
Ascending(q) == \A k \in 1..(Len(q) - 1) : q[k] < q[k + 1]

\* ------------------------------------------------------------------- claims

\* C5: for every well-formed selection text (comma-separated integers and
\* start-end ranges, blank segments allowed) and every count N >= 0,
\* parse_indices returns a list, not None; the list holds exactly v-1 for the
\* values v the text names with 1 <= v <= N, every index lies in [0, N-1],
\* none is repeated and the list ascends.
C5_ParseValid ==
    (pc = "parsed" /\ WellFormed(input_str)) =>
        /\ ~indices.none
        /\ Ascending(indices.list)
        /\ SeqSet(indices.list) \subseteq 0..(Len(repos) - 1)
        /\ SeqSet(indices.list) =
             {v - 1 : v \in {w \in 1..Len(repos) : Names(input_str, w)}}

\* a well-formed text with a range that names values inside and outside
\* [1, N] has been parsed, to two indices or more
C5_Witness ==
    /\ pc = "parsed"
    /\ WellFormed(input_str)
    /\ Contains(input_str, "-")
    /\ Len(indices.list) >= 2
    /\ Names(input_str, 0)
    /\ Names(input_str, Len(repos) + 1)

\* C6: if any comma-separated segment of the selection text is neither blank,
\* an integer nor a start-end range, parse_indices returns None for the whole
\* text, wherever the segment stands and whatever the others are, and main
\* ends in InvalidSelection with nothing selected.
C6_InvalidFormat ==
    (pc # "AwaitingSelection" /\ ~WellFormed(input_str)) =>
        /\ indices = None
        /\ pc = "InvalidSelection"
        /\ selected_repos = <<>>
        /\ sent = [p \in 1..Len(served) |-> Get(p)]

\* the run ended in InvalidSelection on a text whose first segment is a
\* number in range and whose last segment is malformed
C6_Witness ==
    /\ pc = "InvalidSelection"
    /\ \E b \in Segments(input_str) :
        /\ b[1] = 1
        /\ NumForm(SubSeq(input_str, b[1], b[2]))
        /\ NumOf(SubSeq(input_str, b[1], b[2])) \in 1..Len(repos)
    /\ \E b \in Segments(input_str) :
        /\ b[2] = Len(input_str)
        /\ ~GoodSegment(SubSeq(input_str, b[1], b[2]))

\* the DELETE requests among the requests sent, in order
DeletesSent == SelectSeq(sent, LAMBDA q : q.kind = "DELETE")
\* the 1-based list positions the selection text names
NamedPositions == {v \in 1..Len(repos) : Names(input_str, v)}
\* a page response that is not a success
Failed(r) == r.kind = "exc" \/ r.code # 200
\* c is tok with whitespace, and nothing else, around it
TrimmedIs(c, tok) ==
    \E a \in 0..Len(c) :
        /\ a + Len(tok) <= Len(c)
        /\ \A k \in 1..Len(c) :
            IF a < k /\ k <= a + Len(tok) THEN c[k] = tok[k - a] ELSE c[k] = Space
RECURSIVE Flatten(_, _)
Flatten(pages, n) ==
    IF n = 0 THEN <<>> ELSE Flatten(pages, n - 1) \o pages[n].data

\* C1: a DELETE request is on the wire only after the listing completed
\* without error and returned a repository or more, the selection text parsed
\* to a non-empty set of positions, and the confirmation typed was DELETE with
\* nothing but whitespace around it; a run ending in FetchFailed,
\* NoRepositories, InvalidSelection, EmptySelection, Cancelled or without a
\* token has sent no DELETE request.
C1_DeleteOnlyAfterConfirm ==
    /\ DeletesSent # <<>> =>
        /\ served # <<>>
        /\ \A k \in 1..Len(served) : ~Failed(served[k])
        /\ served[Len(served)].data = <<>>
        /\ repos # <<>>
        /\ WellFormed(input_str)
        /\ NamedPositions # {}
        /\ TrimmedIs(confirm, DELETE)
    /\ pc \in {"NoToken", "FetchFailed", "NoRepositories", "InvalidSelection",
               "EmptySelection", "Cancelled"} => DeletesSent = <<>>

\* a DELETE request was sent after a confirmation typed with whitespace around it
C1_Witness ==
    /\ DeletesSent # <<>>
    /\ confirm # DELETE
    /\ pc = "Done"

\* C2: after the confirmation, and without an interrupt, the delete requests
\* sent are those for the selected repositories, one each, in ascending list
\* position; a failed delete neither ends the batch nor is repeated, and at
\* Done the number of delete requests is the size of the selection.
C2_DeleteEachOnce ==
    pc \in {"Deleting", "Done"} =>
        /\ Ascending(indices.list)
        /\ {i + 1 : i \in SeqSet(indices.list)} = NamedPositions
        /\ attempted <= Len(indices.list)
        /\ DeletesSent = [k \in 1..attempted |-> Delete(repos[indices.list[k] + 1])]
        /\ pc = "Done" => attempted = Cardinality(NamedPositions)

\* a batch of two or more ran to Done although its first delete failed
C2_Witness ==
    /\ pc = "Done"
    /\ Len(log) >= 2
    /\ ~log[1].ok
    /\ log[2].ok

\* C3: a page request that returns a non-200 status or fails at transport
\* level, on whichever page, is the last request of the listing; nothing of
\* the earlier pages reaches main and the run ends in FetchFailed.
C3_ListingAllOrNothing ==
    \A k \in 1..Len(served) :
        Failed(served[k]) =>
            /\ k = Len(served)
            /\ sent = [p \in 1..k |-> Get(p)]
            /\ repos = <<>>
            /\ pc = "FetchFailed"
            /\ message = "Error: GitHubError"

\* the listing failed on a later page, with items of earlier pages in hand
C3_Witness ==
    /\ pc = "FetchFailed"
    /\ Len(served) >= 2
    /\ client_repos # <<>>
    /\ served[Len(served)].kind = "http"

\* C4: when every page request succeeds and page k is the first empty one,
\* get_repositories has requested pages 1..k, in that order and once each,
\* and returns the items of pages 1..k-1 concatenated in API order.
C4_ListingConcatenates ==
    /\ sent = [p \in 1..Len(served) |-> Get(p)]
    /\ pc \in {"Listed", "AwaitingSelection", "NoRepositories"} =>
        /\ served # <<>>
        /\ served[Len(served)].data = <<>>
        /\ \A j \in 1..(Len(served) - 1) : served[j].data # <<>>
        /\ \A j \in 1..Len(served) : ~Failed(served[j])
        /\ repos = Flatten(served, Len(served) - 1)

\* a listing of three page requests whose items repeat and do not ascend
C4_Witness ==
    /\ pc = "Listed"
    /\ Len(served) = 3
    /\ \E i, j \in 1..Len(repos) : i < j /\ repos[i] = repos[j]
    /\ \E i, j \in 1..Len(repos) : i < j /\ repos[i] > repos[j]

\* C7: a KeyboardInterrupt, in whichever state it arrives, ends the run with
\* the cancellation message and exit status 0, and no request is sent after it.
C7_InterruptExitsCleanly ==
    /\ [](interrupted =>
            /\ pc = "Interrupted"
            /\ message = "Operation cancelled by user. Exiting..."
            /\ exit_code = 0)
    /\ [][interrupted => sent' = sent /\ pc' = pc]_vars

\* the interrupt arrived in the middle of the delete batch
C7_Witness ==
    /\ interrupted
    /\ pc = "Interrupted"
    /\ attempted >= 1
    /\ attempted < Len(selected_repos)

C9_Tally ==
    /\ pc = "Done" =>
        /\ Len(tally) = 2
        /\ tally[2] = Cardinality(NamedPositions)
        /\ tally[1] = Cardinality({k \in 1..Len(log) :
                          log[k].resp.kind = "http" /\ log[k].resp.code = 204})
    /\ pc \in {"Deleting", "Done"} =>
        /\ 0 <= success_count
        /\ success_count <= attempted
        /\ attempted = Len(log)
        /\ attempted <= Cardinality(NamedPositions)
    /\ pc # "Done" => tally = <<>>

\* a batch of two ended with one delete answered 204 and one that failed at
\* transport level
C9_Witness ==
    /\ pc = "Done"
    /\ tally = <<1, 2>>
    /\ \E k \in 1..Len(log) : log[k].resp.kind = "exc"
    /\ \E k \in 1..Len(log) : log[k].resp.kind = "http" /\ log[k].resp.code = 204

\* the repositories counted as successes
Counted == {log[k].repo : k \in {j \in 1..Len(log) : log[j].ok}}
\* the repositories whose delete failed at transport level
TransportFailed ==
    {log[k].repo : k \in {j \in 1..Len(log) : log[j].resp.kind = "exc"}}
\* the repository whose delete request the interrupt cut short
CutShort ==
    IF interrupted /\ Len(DeletesSent) > Len(log)
    THEN {DeletesSent[Len(DeletesSent)].arg} ELSE {}

\* C10 as claimed: a repository whose delete returned false still exists, and
\* at the end of the run the repositories removed are those counted.
C10_Original ==
    /\ \A k \in 1..Len(log) : ~log[k].ok => log[k].repo \notin removed
    /\ pc \in Terminal => removed = Counted

\* C10, amended: every repository counted as a success was removed, and a
\* delete that returned false on a non-204 status removed nothing; a delete
\* that failed at transport level, or was cut short by an interrupt, may have
\* removed its repository all the same, so the repositories removed are those
\* counted and possibly some of those.
C10_Amended ==
    /\ \A k \in 1..Len(log) :
        /\ log[k].ok => log[k].removes /\ log[k].repo \in removed
        /\ (~log[k].ok /\ log[k].resp.kind = "http") => ~log[k].removes
    /\ Counted \subseteq removed
    /\ removed \subseteq Counted \cup TransportFailed \cup CutShort

\* a delete timed out after the remote had removed the repository: it is
\* printed as failed and the repository is gone
C10_Witness ==
    /\ pc = "Done"
    /\ \E k \in 1..Len(log) : ~log[k].ok /\ log[k].repo \in removed
    /\ \E k \in 1..Len(log) : log[k].ok

====
